---- MODULE Spec2Model ----
(***************************************************************************)
(* The snake server (snakesrv.c and snake++srv.cpp): a listener socket,    *)
(* an accept loop that forks after every accepted connection, and the      *)
(* session loop that serves one connection.  Both program variants are     *)
(* modelled; the variable "variant" says which one is running.             *)
(*                                                                         *)
(* Kernel objects are modelled by what the system calls do: socket()       *)
(* hands out descriptors 0, 1, 2 ... (never reused, so that every close    *)
(* of one descriptor can be counted), fork() copies the descriptor table   *)
(* and the memory of the process, close() removes the descriptor from     *)
(* the table of the calling process only.  A process that has exited keeps *)
(* the tables it had when main returned, so that a handle main left open   *)
(* stays visible.  Signals (SIGINT, SIGTERM, SIGPIPE) are not modelled.    *)
(***************************************************************************)
EXTENDS Integers, Sequences, FiniteSets, TLC

(* ------------------------------ bounds --------------------------------- *)
\* Number of socket() calls that can succeed; further calls fail (EMFILE).
MaxFds == 3
\* Number of clients that connect; also the number of forks that can succeed.
MaxConns == 2

(* ------------------------- program constants --------------------------- *)
EXIT_OK == 0
EXIT_USER == 1
EXIT_ERR == 2
EXIT_PROG == 4
DEF_PORT == 8888
\* The highest port main lets through (lport > 65535 is refused).
MAX_PORT == 65535
\* The size of the message buffer of session() and the count given to read().
BUFSIZE == 1024
\* The backlog passed to listen().
BACKLOG == 5
\* "No descriptor": the initial value of sock and what end() stores.
NOSOCK == -1

Variants == {"c", "cpp"}
Procs == 0 .. MaxConns
Conns == 1 .. MaxConns
Fds == 0 .. (MaxFds - 1)
\* Ports handed to the Listener by the start/stop scenario.
Ports == {-1, 0, 1, DEF_PORT, MAX_PORT}
\* No -p on the command line.
NoArg == << >>
\* The -p arguments tried: decimal, octal and hexadecimal numerals, numerals
\* followed by letters, a word, a negative number.
Args ==
    { <<"0">>, <<"1">>, <<"1", "2">>, <<"8", "8", "8", "8">>,
      <<"9", "9", "9", "9">>, <<"6", "5", "5", "3", "5">>,
      <<"6", "5", "5", "3", "6">>, <<"-", "1">>, <<"a", "b", "c">>,
      <<"1", "2", "a", "b">>, <<"0", "8">>, <<"0", "1", "0">>,
      <<"0", "1", "7", "5", "3", "0">>, <<"0", "x", "1", "0">>,
      <<"0", "x", "2", "2", "b", "8">>, <<"0", "x", "f", "f", "f", "f">>,
      <<"0", "x", "1", "0", "0", "0", "0">> }

VARIABLES
    variant,    \* "c" (snakesrv.c) or "cpp" (snake++srv.cpp)
    optarg,     \* the argument of -p, character by character (NoArg: no -p)
    watch,      \* the connection whose reads are recorded (0: none)
    pc,         \* pc[p]: where process p is
    sock,       \* sock[p]: the descriptor the Listener of process p stores
    port,       \* port[p]: the port of the Listener of process p
    lfds,       \* lfds[p]: listener descriptors open in process p
    linfo,      \* kernel: one record per descriptor socket() created
    lcloses,    \* lcloses[p][fd]: close() calls of process p on descriptor fd
    lastCall,   \* the last Listener call and what it returned
    clisock,    \* clisock[p]: local variable of clients() in process p
    open,       \* open[p]: connection handles open in process p
    closes,     \* closes[p][c]: close() calls of process p on connection c
    ret,        \* ret[p]: what clients() returned in process p (-1 before)
    exitcode,   \* exitcode[p]: exit status of process p (-1 while running)
    sessRet,    \* sessRet[p]: what the last session() of p returned (-1 before)
    nprocs,     \* processes created so far
    nconn,      \* clients that have connected so far
    backlog,    \* kernel: connections waiting to be accepted, oldest first
    inbuf,      \* kernel: inbuf[c]: data has arrived on c and is not yet read
    sent,       \* sent[c]: client c has sent data
    peerClosed, \* peerClosed[c]: client c has closed its end
    balance,    \* balance[c]: payload writes minus reads attempted on c
    lastRead,   \* what the last read() on the watched connection returned
    osFail,     \* the processes in which accept() or fork() has failed
    ioFail      \* some fcntl(), select() or read() has failed

vars == << variant, optarg, watch, pc, sock, port, lfds, linfo, lcloses, lastCall, clisock,
           open, closes, ret, exitcode, sessRet, nprocs, nconn, backlog,
           inbuf, sent, peerClosed, balance, lastRead, osFail, ioFail >>

listenerVars == << sock, port, lfds, linfo, lcloses, lastCall >>
serverVars == << clisock, open, closes, ret, exitcode, sessRet, nprocs,
                 nconn, backlog, inbuf, sent, peerClosed, balance, lastRead, osFail, ioFail >>

(* ----------------------------- command line ---------------------------- *)
\* The digits strtol knows, in the order of their value.
Digits == << "0", "1", "2", "3", "4", "5", "6", "7", "8", "9",
             "a", "b", "c", "d", "e", "f" >>

\* The value of ch as a digit; 16 when it is not one.
DigitVal(ch) ==
    IF \E i \in 1 .. Len(Digits) : Digits[i] = ch
    THEN (CHOOSE i \in 1 .. Len(Digits) : Digits[i] = ch) - 1
    ELSE Len(Digits)

RECURSIVE number(_, _, _)
\* The numeral at the front of s in the given base, after acc: conversion
\* stops at the first character that is not a digit of the base.
number(s, base, acc) ==
    IF s = << >> \/ DigitVal(Head(s)) >= base
    THEN acc
    ELSE number(Tail(s), base, acc * base + DigitVal(Head(s)))

\* s without its sign.
unsigned(s) == IF s # << >> /\ Head(s) \in {"-", "+"} THEN Tail(s) ELSE s

\* mag with the sign of s.
signed(s, mag) == IF s # << >> /\ Head(s) = "-" THEN 0 - mag ELSE mag

\* strtol(s, NULL, 0): base 16 after "0x", base 8 after "0", else base 10.
\* (The arguments tried have no white space and are too short to overflow
\* a long, so errno stays 0.)
strtol(s) ==
    LET t == unsigned(s)
        hex == Len(t) >= 3 /\ t[1] = "0" /\ t[2] = "x" /\ DigitVal(t[3]) < 16
        oct == ~hex /\ t # << >> /\ t[1] = "0"
    IN  signed(s, IF hex THEN number(SubSeq(t, 3, Len(t)), 16, 0)
                  ELSE IF oct THEN number(t, 8, 0)
                  ELSE number(t, 10, 0))

\* atoi(s): base 10 whatever the prefix.
atoi(s) == signed(s, number(unsigned(s), 10, 0))

\* main, case 'p': the test that refuses the argument, on strtol's errno and
\* result; (unsigned long) lport > 65535 holds for every negative lport too.
optRefused(err, lport) ==
    err \/ (lport < 0 \/ lport > MAX_PORT) \/ lport < 1

\* Ports main hands to the Listener: its variable port, DEF_PORT unless -p
\* stored atoi(optarg) in it.
MainPorts == {IF optarg = NoArg THEN DEF_PORT ELSE atoi(optarg)}

(* ------------------------------ Listener ------------------------------- *)
(* A Listener value L is the Listener as one process sees it:              *)
(*   L.sock  the stored descriptor,   L.fds   the descriptors open here,   *)
(*   L.info  the kernel's records,    L.ncl   close() calls per descriptor *)

\* active with the test sock > 0: descriptor 0 counts as closed.
activeAboveZero(v, s) == s > 0

\* Socker::active (C++: sock >= 0); the C variant tests -1 != sock.
active(v, s) == IF v = "cpp" THEN s >= 0 ELSE s # NOSOCK

\* Socker::validport (C++: port > 0); the C variant rejects port < 0 only.
validport(v, prt) == IF v = "cpp" THEN prt > 0 ELSE ~(prt < 0)

\* close(fd) in one process: the descriptor leaves the table, the call counts.
closefd(L, fd) ==
    [L EXCEPT !.fds = @ \ {fd},
              !.ncl = [@ EXCEPT ![fd] = IF @ < 2 THEN @ + 1 ELSE @]]

\* Socker::end / socker(SOCKACT_END).
end(v, L) ==
    IF active(v, L.sock)
    THEN [closefd(L, L.sock) EXCEPT !.sock = NOSOCK]
    ELSE L

\* bindFailed without the call of end(): the descriptor stays stored and open.
bindFailedKeeps(v, L) == [L |-> L, r |-> -1]

\* The bind() failure path of start: end() and return -1.
bindFailed(v, L) == [L |-> end(v, L), r |-> -1]

\* The listen() failure path of start: end() and return -1.
listenFailed(v, L) == [L |-> end(v, L), r |-> -1]

\* restart without the call of end(): the old descriptor is forgotten open.
restartForgets(v, L) == L

\* The first step of start: a Listener that is open is ended first.
restart(v, L) == IF active(v, L.sock) THEN end(v, L) ELSE L

\* Socker::start / socker(SOCKACT_START, port).  so, bo, lo say whether
\* socket(), bind() and listen() succeed.  Returns the new Listener and the
\* value the call returns.
start(v, L0, prt, so, bo, lo) ==
    LET L1 == restart(v, L0)
    IN  IF ~validport(v, prt) THEN [L |-> L1, r |-> -1]
        ELSE IF ~so \/ Len(L1.info) >= MaxFds
        THEN [L |-> [L1 EXCEPT !.sock = NOSOCK], r |-> -1]
        ELSE
          LET fd == Len(L1.info)
              L2 == [L1 EXCEPT !.sock = fd,
                               !.fds = @ \cup {fd},
                               !.info = Append(@, [bound |-> NOSOCK, backlog |-> 0])]
          IN  IF ~bo THEN bindFailed(v, L2)
              ELSE
                LET L3 == [L2 EXCEPT !.info[fd + 1].bound = prt]
                IN  IF ~lo THEN listenFailed(v, L3)
                    ELSE LET L4 == [L3 EXCEPT !.info[fd + 1].backlog = BACKLOG]
                         IN  [L |-> L4, r |-> L4.sock]

\* The Listener of process p, read from the state.
Lis(p) == [sock |-> sock[p], fds |-> lfds[p], info |-> linfo, ncl |-> lcloses[p]]

\* Store Listener L as the Listener of process p.
SetLis(p, L) ==
    /\ sock' = [sock EXCEPT ![p] = L.sock]
    /\ lfds' = [lfds EXCEPT ![p] = L.fds]
    /\ linfo' = L.info
    /\ lcloses' = [lcloses EXCEPT ![p] = L.ncl]

\* The record of a Listener call: the operation, the port it was given, what
\* it returned, whether it created a descriptor, the descriptor the Listener
\* stored before the call, and whether every system call of it succeeded.
NoCall == [op |-> "none", port |-> NOSOCK, r |-> NOSOCK, created |-> FALSE,
           prev |-> NOSOCK, ok |-> TRUE]

\* The record of a start on port prt in process 0 that gave res.
StartCall(prt, res, so, bo, lo) ==
    [op |-> "start", port |-> prt, r |-> res.r,
     created |-> Len(res.L.info) > Len(linfo),
     prev |-> sock[0],
     ok |-> so /\ bo /\ lo /\ Len(linfo) < MaxFds]

\* The state at the entry of main, but for the command line.
Fresh ==
    /\ variant \in Variants
    /\ sock = [p \in Procs |-> NOSOCK]
    /\ port = [p \in Procs |-> NOSOCK]
    /\ lfds = [p \in Procs |-> {}]
    /\ linfo = << >>
    /\ lcloses = [p \in Procs |-> [fd \in Fds |-> 0]]
    /\ lastCall = NoCall
    /\ clisock = [p \in Procs |-> -1]
    /\ open = [p \in Procs |-> {}]
    /\ closes = [p \in Procs |-> [c \in Conns |-> 0]]
    /\ ret = [p \in Procs |-> -1]
    /\ exitcode = [p \in Procs |-> -1]
    /\ sessRet = [p \in Procs |-> -1]
    /\ nprocs = 1
    /\ nconn = 0
    /\ backlog = << >>
    /\ inbuf = [c \in Conns |-> FALSE]
    /\ sent = [c \in Conns |-> FALSE]
    /\ peerClosed = [c \in Conns |-> FALSE]
    /\ balance = [c \in Conns |-> 0]
    /\ lastRead = -1
    /\ osFail = {}
    /\ ioFail = FALSE

\* main after the option loop when no -p was given.
Init ==
    /\ optarg = NoArg
    /\ watch = 0
    /\ pc = [p \in Procs |-> IF p = 0 THEN "main" ELSE "unborn"]
    /\ Fresh

\* main before the option loop, called with -p optarg.
CliInit ==
    /\ optarg \in Args
    /\ watch = 0
    /\ pc = [p \in Procs |-> IF p = 0 THEN "getopt" ELSE "unborn"]
    /\ Fresh

(* ------------------- the Listener driven call by call ------------------ *)
(* ListenerSpec: process 0 calls start and stop in any order.  In the C    *)
(* variant each start names its port; in the C++ variant the port is the   *)
(* member set by the constructor, so a start with another port is a new    *)
(* Socker (the old one deleted first, as main does with its only Socker).  *)

\* socker(SOCKACT_START, prt) in the C variant.
CStart(prt, so, bo, lo) ==
    /\ variant = "c"
    /\ LET res == start("c", Lis(0), prt, so, bo, lo)
       IN  /\ SetLis(0, res.L)
           /\ port' = [port EXCEPT ![0] = prt]
           /\ lastCall' = StartCall(prt, res, so, bo, lo)
    /\ UNCHANGED << variant, optarg, watch, pc, serverVars >>

\* delete sock; sock = new Socker(prt): the destructor calls end(), the
\* constructor stores the port and calls start().
CppNew(prt, so, bo, lo) ==
    /\ variant = "cpp"
    /\ LET old == end("cpp", Lis(0))
           res == start("cpp", [old EXCEPT !.sock = NOSOCK], prt, so, bo, lo)
       IN  /\ SetLis(0, res.L)
           /\ port' = [port EXCEPT ![0] = prt]
           /\ lastCall' = StartCall(prt, res, so, bo, lo)
    /\ UNCHANGED << variant, optarg, watch, pc, serverVars >>

\* Socker::start() called again on the same object.
CppStart(so, bo, lo) ==
    /\ variant = "cpp"
    /\ lastCall.op # "none"
    /\ LET res == start("cpp", Lis(0), port[0], so, bo, lo)
       IN  /\ SetLis(0, res.L)
           /\ lastCall' = StartCall(port[0], res, so, bo, lo)
    /\ UNCHANGED << variant, optarg, watch, pc, port, serverVars >>

\* Socker::end() / socker(SOCKACT_END).
Stop ==
    /\ LET L == end(variant, Lis(0))
       IN  /\ SetLis(0, L)
           /\ lastCall' = [op |-> "stop", port |-> NOSOCK, r |-> L.sock,
                           created |-> FALSE, prev |-> sock[0], ok |-> TRUE]
    /\ UNCHANGED << variant, optarg, watch, pc, port, serverVars >>

ListenerNext ==
    \/ \E prt \in Ports, so, bo, lo \in BOOLEAN : CStart(prt, so, bo, lo)
    \/ \E prt \in Ports, so, bo, lo \in BOOLEAN : CppNew(prt, so, bo, lo)
    \/ \E so, bo, lo \in BOOLEAN : CppStart(so, bo, lo)
    \/ Stop

ListenerSpec == Init /\ [][ListenerNext]_vars


(* --------------------------- connection handles ------------------------ *)
(* A table T is the connection handles of one process: T.open the handles  *)
(* open in it, T.ncl the close() calls it has made on each connection.     *)

Tab(p) == [open |-> open[p], ncl |-> closes[p]]

SetTab(p, T) ==
    /\ open' = [open EXCEPT ![p] = T.open]
    /\ closes' = [closes EXCEPT ![p] = T.ncl]

\* close(clisock) in one process.
closeconn(T, c) ==
    [T EXCEPT !.open = @ \ {c},
              !.ncl = [@ EXCEPT ![c] = IF @ < 2 THEN @ + 1 ELSE @]]

\* forkFailed without the close: the accepted handle is left open.
forkFailedLeaks(T, c) == T

\* clients(), case -1 of the fork switch: close(clisock) before return.
forkFailed(T, c) == closeconn(T, c)

\* clients(), case 0 of the fork switch: close(clisock); break.
forkChild(T, c) == closeconn(T, c)

\* session(), fcntl() < 0: close(clisock) before return.
sessFcntlFailed(T, c) == closeconn(T, c)

\* session(), the branch -1 == retval: close(clisock) before return.
sessSelectError(T, c) == closeconn(T, c)

\* sessReadError without the close: the handle is left open.
sessReadErrorLeaks(T, c) == T

\* session(), reads < 0: close(clisock) before return.
sessReadError(T, c) == closeconn(T, c)

\* session(), after the loop: close(clisock); return OK.
sessLoopExit(T, c) == closeconn(T, c)

(* ------------------------------- decisions ----------------------------- *)
\* main: the exit status after clients() returned r.  The C variant returns
\* ret, the C++ variant returns Exit::OK.
ExitStatus(v, r) == IF v = "c" THEN r ELSE EXIT_OK

\* main: whether the listener setup is seen to have failed.  The C variant
\* tests the returned descriptor; the C++ variant tests the pointer that new
\* returned, which is never below zero.
setupFailed(v, r) == v = "c" /\ r < 0

\* notOpen without the test: clients() goes on to accept().
notOpenNever(v, s) == FALSE

\* clients(): the entry test (C: sock < 0 on the argument, C++: !active()).
notOpen(v, s) == IF v = "cpp" THEN ~active(v, s) ELSE s < 0

\* forkBranch without case 0: the child runs the session as well.
forkBranchBoth(r) == IF r = -1 THEN "fail" ELSE "fcntl"

\* forkBranch with a child that exits instead of going back to accept.
forkBranchChildExits(r) ==
    IF r = -1 THEN "fail" ELSE IF r = 0 THEN "exited" ELSE "fcntl"

\* forkBranch with close-and-break in the parent too: nobody runs the session.
forkBranchNobody(r) == IF r = -1 THEN "fail" ELSE "child"

\* clients(): the switch on fork()'s result r.
forkBranch(r) ==
    IF r = -1 THEN "fail" ELSE IF r = 0 THEN "child" ELSE "fcntl"

\* afterSession without the test: the loop goes on after a failed session.
afterSessionIgnores(retval) == "accept"

\* clients(): after session() returned retval.
afterSession(retval) == IF EXIT_OK # retval THEN "return" ELSE "accept"

\* selectBranch with the write left out: a ready descriptor is read at once.
selectBranchNoWrite(retval) ==
    IF retval # 0 THEN "read"
    ELSE IF -1 = retval THEN "error"
    ELSE "timeout"

\* session(): the branches on select()'s result, in the order of the code.
selectBranch(retval) ==
    IF retval # 0 THEN "write"
    ELSE IF -1 = retval THEN "error"
    ELSE "timeout"

\* session(): the index of the store message[reads] = '\0' that follows a
\* read of r > 0 bytes.
storeIndex(r) == r

\* The indices of char message[1024].
InMessage(i) == i \in 0 .. (BUFSIZE - 1)

\* What the store after a read of r can lead to.  A store outside message is
\* undefined: the byte behind the buffer may be one that does not matter
\* ("stored"), or the process is terminated abnormally ("abort").
storeOutcomes(r) ==
    IF r > 0 /\ ~InMessage(storeIndex(r)) THEN {"stored", "abort"}
    ELSE {"stored"}

\* readBranch with the test reads <= 0: the end of the stream ends the session.
readBranchEndsOnZero(r) == IF r <= 0 THEN "error" ELSE "loop"

\* session(): after read() returned reads.
readBranch(r) == IF r < 0 THEN "error" ELSE "loop"

(* -------------------------------- kernel ------------------------------- *)
Readable(c) == inbuf[c] \/ peerClosed[c]

\* SelectResults with a timeout passed to select(): 0 when nothing is there.
SelectResultsTimed(c) == (IF Readable(c) THEN {1} ELSE {0}) \cup {-1}

\* What select(clisock + 1, &rfds, NULL, NULL, NULL) can return now: with a
\* NULL timeout it returns only when the descriptor is readable (1) or with
\* an error (-1), never 0.
SelectResults(c) == (IF Readable(c) THEN {1} ELSE {}) \cup {-1}

\* The byte counts tried for a read that returns data: the least, and the
\* most that fits the count given to read().
ReadCounts == {1, BUFSIZE}

\* What read(clisock, message, 1024) can return now on the non-blocking
\* socket: data, end of stream (0), or an error (-1: EAGAIN when nothing is
\* there, ECONNRESET and the like at any time).
ReadResults(c) ==
    (IF inbuf[c] THEN ReadCounts ELSE IF peerClosed[c] THEN {0} ELSE {}) \cup {-1}

\* Some live process holds a descriptor that is listening.
Listening ==
    \E p \in Procs : \E fd \in lfds[p] :
        pc[p] # "exited" /\ linfo[fd + 1].backlog = BACKLOG

(* ------------------------------- the server ---------------------------- *)
\* ClientsReturns without the release: main returns with the Listener as
\* clients() left it.
ClientsReturnsKeeps(p, L, r) ==
    /\ pc' = [pc EXCEPT ![p] = "exited"]
    /\ ret' = [ret EXCEPT ![p] = r]
    /\ exitcode' = [exitcode EXCEPT ![p] = ExitStatus(variant, r)]
    /\ SetLis(p, L)

\* clients() returns r in process p, whose Listener is L: main releases the
\* Listener (socker(SOCKACT_END) / delete sock) and returns.
ClientsReturns(p, L, r) ==
    /\ pc' = [pc EXCEPT ![p] = "exited"]
    /\ ret' = [ret EXCEPT ![p] = r]
    /\ exitcode' = [exitcode EXCEPT ![p] = ExitStatus(variant, r)]
    /\ SetLis(p, end(variant, L))

\* Process p is terminated abnormally: the kernel releases its descriptors,
\* no close() of the program is made, main does not return.
Abort(p) ==
    /\ pc' = [pc EXCEPT ![p] = "aborted"]
    /\ open' = [open EXCEPT ![p] = {}]
    /\ lfds' = [lfds EXCEPT ![p] = {}]
    /\ UNCHANGED << closes, sessRet, ret, exitcode, sock, linfo, lcloses >>

\* session() returns retval to clients() in process p.
SessionReturns(p, retval) ==
    /\ sessRet' = [sessRet EXCEPT ![p] = retval]
    /\ IF afterSession(retval) = "return"
       THEN ClientsReturns(p, Lis(p), retval)
       ELSE /\ pc' = [pc EXCEPT ![p] = "accept"]
            /\ UNCHANGED << ret, exitcode, sock, lfds, linfo, lcloses >>

\* main up to the first accept: create the Listener on prt, enter clients().
MainStart(prt, so, bo, lo) ==
    /\ pc[0] = "main"
    /\ LET res == start(variant, Lis(0), prt, so, bo, lo)
       IN  /\ lastCall' = StartCall(prt, res, so, bo, lo)
           /\ port' = [port EXCEPT ![0] = prt]
           /\ IF setupFailed(variant, res.r)
              THEN /\ pc' = [pc EXCEPT ![0] = "exited"]
                   /\ exitcode' = [exitcode EXCEPT ![0] = EXIT_ERR]
                   /\ SetLis(0, res.L)
                   /\ UNCHANGED ret
              ELSE IF notOpen(variant, res.L.sock)
              THEN ClientsReturns(0, res.L, EXIT_PROG)
              ELSE /\ pc' = [pc EXCEPT ![0] = "accept"]
                   /\ SetLis(0, res.L)
                   /\ UNCHANGED << ret, exitcode >>
    /\ UNCHANGED << variant, optarg, watch, clisock, open, closes, sessRet, nprocs, nconn,
                    backlog, inbuf, sent, peerClosed, balance, lastRead, osFail, ioFail >>

\* main, case 'p' of the option loop: refuse the argument or go on.
MainOpt ==
    /\ pc[0] = "getopt"
    /\ LET lport == strtol(optarg)
       IN  IF optRefused(FALSE, lport)
           THEN /\ pc' = [pc EXCEPT ![0] = "exited"]
                /\ exitcode' = [exitcode EXCEPT ![0] = EXIT_USER]
           ELSE /\ pc' = [pc EXCEPT ![0] = "main"]
                /\ UNCHANGED exitcode
    /\ UNCHANGED << variant, optarg, watch, listenerVars, clisock, open, closes, ret,
                    sessRet, nprocs, nconn, backlog, inbuf, sent, peerClosed,
                    balance, lastRead, osFail, ioFail >>

\* accept() returns the oldest waiting connection.
AcceptOk(p) ==
    /\ pc[p] = "accept"
    /\ sock[p] \in lfds[p]
    /\ backlog # << >>
    /\ clisock' = [clisock EXCEPT ![p] = Head(backlog)]
    /\ open' = [open EXCEPT ![p] = @ \cup {Head(backlog)}]
    /\ backlog' = Tail(backlog)
    /\ pc' = [pc EXCEPT ![p] = "fork"]
    /\ UNCHANGED << variant, optarg, watch, listenerVars, closes, ret, exitcode, sessRet,
                    nprocs, nconn, inbuf, sent, peerClosed, balance, lastRead, osFail, ioFail >>

\* accept() fails: clisock < 0, clients() returns ERR.
AcceptFail(p) ==
    /\ pc[p] = "accept"
    /\ clisock' = [clisock EXCEPT ![p] = -1]
    /\ ClientsReturns(p, Lis(p), EXIT_ERR)
    /\ osFail' = osFail \cup {p}
    /\ UNCHANGED << variant, optarg, watch, port, lastCall, open, closes, sessRet, nprocs,
                    nconn, backlog, inbuf, sent, peerClosed, balance, lastRead, ioFail >>

\* fork() succeeds: the new process q is a copy of p; fork() returns 0 in q
\* and q's pid in p.
ForkOk(p) ==
    /\ pc[p] = "fork"
    /\ nprocs \in Procs
    /\ LET q == nprocs
       IN  /\ pc' = [pc EXCEPT ![p] = forkBranch(q), ![q] = forkBranch(0)]
           /\ sock' = [sock EXCEPT ![q] = sock[p]]
           /\ port' = [port EXCEPT ![q] = port[p]]
           /\ lfds' = [lfds EXCEPT ![q] = lfds[p]]
           /\ clisock' = [clisock EXCEPT ![q] = clisock[p]]
           /\ open' = [open EXCEPT ![q] = open[p]]
    /\ nprocs' = nprocs + 1
    /\ UNCHANGED << variant, optarg, watch, linfo, lcloses, lastCall, closes, ret, exitcode,
                    sessRet, nconn, backlog, inbuf, sent, peerClosed,
                    balance, lastRead, osFail, ioFail >>

\* fork() fails: close(clisock), clients() returns ERR.
ForkFail(p) ==
    /\ pc[p] = "fork"
    /\ forkBranch(-1) = "fail"
    /\ SetTab(p, forkFailed(Tab(p), clisock[p]))
    /\ ClientsReturns(p, Lis(p), EXIT_ERR)
    /\ osFail' = osFail \cup {p}
    /\ UNCHANGED << variant, optarg, watch, port, lastCall, clisock, sessRet, nprocs, nconn,
                    backlog, inbuf, sent, peerClosed, balance, lastRead, ioFail >>

\* case 0 of the fork switch: close(clisock), break, next turn of the loop.
ChildClose(p) ==
    /\ pc[p] = "child"
    /\ SetTab(p, forkChild(Tab(p), clisock[p]))
    /\ pc' = [pc EXCEPT ![p] = "accept"]
    /\ UNCHANGED << variant, optarg, watch, listenerVars, clisock, ret, exitcode, sessRet,
                    nprocs, nconn, backlog, inbuf, sent, peerClosed,
                    balance, lastRead, osFail, ioFail >>

\* session() from its entry to the loop: the handle test and fcntl().
SessionFcntl(p, ok) ==
    /\ pc[p] = "fcntl"
    /\ IF clisock[p] < 0
       THEN /\ SessionReturns(p, EXIT_ERR)
            /\ UNCHANGED << open, closes >>
       ELSE IF ~ok
       THEN /\ SetTab(p, sessFcntlFailed(Tab(p), clisock[p]))
            /\ SessionReturns(p, EXIT_ERR)
       ELSE /\ pc' = [pc EXCEPT ![p] = "select"]
            /\ UNCHANGED << open, closes, sessRet, ret, exitcode, sock, lfds,
                            linfo, lcloses >>
    /\ ioFail' = (ioFail \/ (clisock[p] >= 0 /\ ~ok))
    /\ UNCHANGED << variant, optarg, watch, port, lastCall, clisock, nprocs, nconn, backlog,
                    inbuf, sent, peerClosed, balance, lastRead, osFail >>

\* One select() of the session loop and the branch taken on its result.
SessionSelect(p, retval) ==
    /\ pc[p] = "select"
    /\ retval \in SelectResults(clisock[p])
    /\ ioFail' = (ioFail \/ retval = -1)
    /\ CASE selectBranch(retval) \in {"write", "read"} ->
              /\ pc' = [pc EXCEPT ![p] = selectBranch(retval)]
              /\ UNCHANGED << open, closes, sessRet, ret, exitcode, sock,
                              lfds, linfo, lcloses >>
         [] selectBranch(retval) = "error" ->
              /\ SetTab(p, sessSelectError(Tab(p), clisock[p]))
              /\ SessionReturns(p, EXIT_ERR)
         [] selectBranch(retval) = "timeout" ->
              /\ SetTab(p, sessLoopExit(Tab(p), clisock[p]))
              /\ SessionReturns(p, EXIT_OK)
    /\ UNCHANGED << variant, optarg, watch, port, lastCall, clisock, nprocs, nconn, backlog,
                    inbuf, sent, peerClosed, balance, lastRead, osFail >>

\* write(clisock, message, strlen(message)): the payload; the result of the
\* call is not looked at.
SessionWrite(p) ==
    /\ pc[p] = "write"
    /\ balance' = [balance EXCEPT ![clisock[p]] = @ + 1]
    /\ pc' = [pc EXCEPT ![p] = "read"]
    /\ UNCHANGED << variant, optarg, watch, listenerVars, clisock, open, closes, ret,
                    exitcode, sessRet, nprocs, nconn, backlog, inbuf, sent,
                    peerClosed, lastRead, osFail, ioFail >>

\* read(clisock, message, 1024) and the tests on its result.  A read that
\* returns data takes all of it (more = FALSE) or leaves some (more = TRUE).
SessionRead(p, r, more) ==
    /\ pc[p] = "read"
    /\ r \in ReadResults(clisock[p])
    /\ r > 0 \/ ~more
    /\ balance' = [balance EXCEPT ![clisock[p]] = @ - 1]
    /\ lastRead' = IF clisock[p] = watch THEN r ELSE lastRead
    /\ inbuf' = [inbuf EXCEPT ![clisock[p]] = IF r > 0 THEN more ELSE @]
    /\ IF readBranch(r) = "error"
       THEN /\ SetTab(p, sessReadError(Tab(p), clisock[p]))
            /\ SessionReturns(p, EXIT_ERR)
       ELSE \E out \in storeOutcomes(r) :
              IF out = "abort"
              THEN Abort(p)
              ELSE /\ pc' = [pc EXCEPT ![p] = "select"]
                   /\ UNCHANGED << open, closes, sessRet, ret, exitcode, sock,
                                   lfds, linfo, lcloses >>
    /\ ioFail' = (ioFail \/ r < 0)
    /\ UNCHANGED << variant, optarg, watch, port, lastCall, clisock, nprocs, nconn, backlog,
                    sent, peerClosed, osFail >>

(* ------------------------------- the clients --------------------------- *)
\* Connection c is waiting to be accepted or open in some running process;
\* once every copy of its handle is closed the kernel drops what arrives.
ConnAlive(c) ==
    \/ \E i \in 1 .. Len(backlog) : backlog[i] = c
    \/ \E p \in Procs : pc[p] \notin {"exited", "aborted"} /\ c \in open[p]

\* The next client connects to the listening port and waits to be accepted.
ClientConnect ==
    /\ nconn < MaxConns
    /\ Listening
    /\ nconn' = nconn + 1
    /\ backlog' = Append(backlog, nconn + 1)
    /\ UNCHANGED << variant, optarg, watch, pc, listenerVars, clisock, open, closes, ret,
                    exitcode, sessRet, nprocs, inbuf, sent, peerClosed,
                    balance, lastRead, osFail, ioFail >>

\* Client c sends data; data sent while earlier data is still unread only
\* adds to it.
ClientSend(c) ==
    /\ ConnAlive(c)
    /\ ~peerClosed[c]
    /\ ~inbuf[c]
    /\ sent' = [sent EXCEPT ![c] = TRUE]
    /\ inbuf' = [inbuf EXCEPT ![c] = TRUE]
    /\ UNCHANGED << variant, optarg, watch, pc, listenerVars, clisock, open, closes, ret,
                    exitcode, sessRet, nprocs, nconn, backlog, peerClosed,
                    balance, lastRead, osFail, ioFail >>

\* Client c closes its end: the server's reads return 0 once the data is read.
ClientClose(c) ==
    /\ ConnAlive(c)
    /\ ~peerClosed[c]
    /\ peerClosed' = [peerClosed EXCEPT ![c] = TRUE]
    /\ UNCHANGED << variant, optarg, watch, pc, listenerVars, clisock, open, closes, ret,
                    exitcode, sessRet, nprocs, nconn, backlog, inbuf, sent,
                    balance, lastRead, osFail, ioFail >>

\* The steps of process p in which no system call fails.
ProcStep(p) ==
    \/ AcceptOk(p)
    \/ ForkOk(p)
    \/ ChildClose(p)
    \/ SessionFcntl(p, TRUE)
    \/ \E retval \in {0, 1} : SessionSelect(p, retval)
    \/ SessionWrite(p)
    \/ \E r \in ReadCounts \cup {0}, more \in BOOLEAN : SessionRead(p, r, more)

\* The steps of process p in which a system call fails.
ProcFail(p) ==
    \/ AcceptFail(p)
    \/ ForkFail(p)
    \/ SessionFcntl(p, FALSE)
    \/ SessionSelect(p, -1)
    \/ SessionRead(p, -1, FALSE)

Next ==
    \/ \E prt \in MainPorts, so, bo, lo \in BOOLEAN : MainStart(prt, so, bo, lo)
    \/ \E p \in Procs : ProcStep(p)
    \/ \E p \in Procs : ProcFail(p)
    \/ ClientConnect
    \/ \E c \in Conns : ClientSend(c)
    \/ \E c \in Conns : ClientClose(c)

Spec == Init /\ [][Next]_vars

\* The server with the reads on the first connection recorded.
WatchInit ==
    /\ optarg = NoArg
    /\ watch = 1
    /\ pc = [p \in Procs |-> IF p = 0 THEN "main" ELSE "unborn"]
    /\ Fresh

WatchSpec == WatchInit /\ [][Next]_vars

\* main called with -p, up to the call of clients().
CliNext ==
    \/ MainOpt
    \/ \E prt \in MainPorts, so, bo, lo \in BOOLEAN : MainStart(prt, so, bo, lo)

CliSpec == CliInit /\ [][CliNext]_vars

\* The scheduler runs every process that can take a step; a system call
\* that can succeed is not made to fail for ever.  Clients are under no
\* obligation to connect, send or close.
FairSpec == Spec /\ \A p \in Procs : WF_vars(ProcStep(p))

(* =============================== claims ================================ *)
InSession(p) == pc[p] \in {"fcntl", "select", "write", "read"}

\* Process p has returned from session() or from clients().
Returned(p) == pc[p] = "exited" \/ (pc[p] = "accept" /\ sessRet[p] >= 0)

\* Client c has neither sent data nor closed its end.
Silent(c) == ~sent[c] /\ ~peerClosed[c]

\* The client of the session of process p is silent.
SilentPeer(p) == clisock[p] \in Conns /\ Silent(clisock[p])

\* Payload writes minus reads attempted on the connection of process p.
Owed(p) == IF clisock[p] \in Conns THEN balance[clisock[p]] ELSE 0

\* Connection c has been accepted.
Accepted(c) == c <= nconn /\ \A i \in 1 .. Len(backlog) : backlog[i] # c

\* C1: in every process every copy of a connection handle is closed at most
\* once, and when session() or clients() has returned in a process, no
\* connection handle is open in that process; a handle that was closed there
\* was closed by exactly one close().
C1_ClosedExactlyOnce ==
    \A p \in Procs :
        /\ \A c \in Conns : closes[p][c] <= 1
        /\ \A c \in Conns : closes[p][c] = 1 => c \notin open[p]
        /\ Returned(p) => open[p] = {}
        /\ pc[p] = "accept" => open[p] = {}

\* C1 witness: a session has ended on a read or fcntl error, its handle was
\* closed once by the process that served it and once by the fork child.
C1_Witness ==
    \E p, q \in Procs :
        /\ p # q
        /\ sessRet[p] = EXIT_ERR
        /\ pc[p] = "exited"
        /\ clisock[p] \in Conns
        /\ closes[p][clisock[p]] = 1
        /\ closes[q][clisock[p]] = 1

\* C2: after every Listener call the Listener is closed (sock = -1, no
\* descriptor open) or open (the stored descriptor is the only one open, is
\* bound to the port and listens with backlog 5); a start that returns -1
\* leaves it closed.
C2_ClosedOrOpen ==
    /\ \/ sock[0] = NOSOCK /\ lfds[0] = {}
       \/ /\ sock[0] >= 0
          /\ lfds[0] = {sock[0]}
          /\ linfo[sock[0] + 1].bound = port[0]
          /\ linfo[sock[0] + 1].backlog = BACKLOG
    /\ (lastCall.op = "start" /\ lastCall.r = -1) =>
           (sock[0] = NOSOCK /\ lfds[0] = {})
    /\ \A fd \in Fds : lcloses[0][fd] <= 1

\* C2 witness: a start created a descriptor, then bind() or listen() failed,
\* and the descriptor has been released.
C2_Witness ==
    /\ lastCall.op = "start"
    /\ lastCall.created
    /\ lastCall.r = -1
    /\ sock[0] = NOSOCK
    /\ lcloses[0][Len(linfo) - 1] = 1

\* C3 (as claimed): no process is in accept while a session is running, and
\* at most one session is in progress.
C3_NoAcceptDuringSession ==
    /\ \A p, q \in Procs : ~(pc[p] = "accept" /\ InSession(q))
    /\ Cardinality({p \in Procs : InSession(p)}) <= 1

\* C3 (amended): the process that runs a session is not in accept; sessions
\* in progress at the same time run in different processes on different
\* connections, each on a handle its process holds open.
C3_OneSessionPerConnection ==
    /\ \A p, q \in Procs :
          (p # q /\ InSession(p) /\ InSession(q)) => clisock[p] # clisock[q]
    /\ \A p \in Procs :
          InSession(p) => (clisock[p] \in Conns /\ clisock[p] \in open[p])

\* C3 witness: two sessions in progress while a third process is in accept.
C3_Witness ==
    \E p, q, a \in Procs :
        p # q /\ InSession(p) /\ InSession(q) /\ pc[a] = "accept"

\* C4 (as claimed): once a session has returned Error, no process accepts a
\* connection.
C4_ErrorStopsAllAccepts ==
    [][(\E p \in Procs : sessRet[p] = EXIT_ERR) =>
          ~(\E q \in Procs : pc[q] = "accept" /\ pc'[q] = "fork")]_vars

\* C4 (amended): a session that returns a non-Ok outcome ends the process that
\* ran it: clients() has returned that outcome, the process has released its
\* listening descriptor and has exited.
C4_ErrorStopsOwnProcess ==
    \A p \in Procs :
        (sessRet[p] >= 0 /\ sessRet[p] # EXIT_OK) =>
            /\ pc[p] = "exited"
            /\ ret[p] = sessRet[p]
            /\ lfds[p] = {}

\* C4 witness: a session has returned Error and another process is in accept
\* on its open copy of the listening socket with a client waiting.
C4_Witness ==
    \E p, q \in Procs :
        /\ sessRet[p] = EXIT_ERR
        /\ pc[q] = "accept"
        /\ sock[q] \in lfds[q]
        /\ backlog # << >>

\* C5: once the first client has disconnected and a second client is waiting
\* on the port, the second client is eventually accepted, unless accept() or
\* fork() fails.
C5_SecondClientAccepted ==
    (nconn >= 2 /\ peerClosed[1] /\ ~Accepted(2)) ~> (Accepted(2) \/ osFail # {})

\* C5 witness: the second client has been accepted after the first one
\* disconnected, with no accept() or fork() failure.
C5_Witness ==
    /\ peerClosed[1]
    /\ osFail = {}
    /\ \E p \in Procs : clisock[p] = 2 /\ 2 \in open[p]

C7_EverySessionTerminates ==
    \A p \in Procs : InSession(p) ~> Returned(p)

\* C8: on every connection the payload writes and the reads attempted are
\* equal in number, except between the write and the read of one turn of
\* the loop, where one write is ahead.
C8_WriteBeforeRead ==
    \A c \in Conns :
        balance[c] =
            IF \E p \in Procs : pc[p] = "read" /\ clisock[p] = c THEN 1 ELSE 0

\* C8 witness: the loop has read the client's data and then the end of the
\* stream, and the handler is back at select().
C8_Witness ==
    \E p \in Procs :
        /\ pc[p] = "select"
        /\ sent[clisock[p]]
        /\ ~inbuf[clisock[p]]
        /\ peerClosed[clisock[p]]
        /\ ~ioFail

\* C9 (as claimed): a process that has exited has the exit status of its
\* outcome: Error when the listener setup failed, else what clients()
\* returned.
C9_ExitStatusIsOutcome ==
    \A p \in Procs :
        pc[p] = "exited" =>
            exitcode[p] = IF lastCall.r < 0 THEN EXIT_ERR ELSE ret[p]

\* C10 (as claimed): a start with a port <= 0 returns -1, creates no socket
\* and leaves the Listener closed.
C10_NonPositivePortFails ==
    (lastCall.op = "start" /\ lastCall.port <= 0) =>
        /\ lastCall.r = -1
        /\ ~lastCall.created
        /\ sock[0] = NOSOCK
        /\ lfds[0] = {}

\* C11: a start on a Listener that is open (the second of two starts in
\* succession), given a port of 1..65535 and with every system call
\* succeeding, has closed the first descriptor exactly once and leaves exactly
\* one descriptor open: a new one, bound to the port of the second call and
\* listening.
C11_RestartNeverLeaks ==
    (/\ lastCall.op = "start"
     /\ lastCall.prev >= 0
     /\ lastCall.ok
     /\ lastCall.port \in 1 .. MAX_PORT) =>
        /\ lcloses[0][lastCall.prev] = 1
        /\ lastCall.prev \notin lfds[0]
        /\ sock[0] >= 0
        /\ sock[0] # lastCall.prev
        /\ lfds[0] = {sock[0]}
        /\ linfo[sock[0] + 1].bound = lastCall.port
        /\ linfo[sock[0] + 1].backlog = BACKLOG

\* C11 witness: a start on port 8888 gave descriptor 0, the next call was a
\* start on port 65535, which closed descriptor 0 and listens on descriptor 1.
C11_Witness ==
    /\ lastCall.op = "start"
    /\ lastCall.prev = 0
    /\ lastCall.port = MAX_PORT
    /\ Len(linfo) = 2
    /\ linfo[1].bound = DEF_PORT
    /\ lcloses[0][0] = 1
    /\ sock[0] = 1

\* C12: after a start on a port of 1..65535 in which every system call
\* succeeded the Listener is open and the call returned its descriptor; after
\* a stop it is closed; a stop on a closed Listener closes no descriptor and
\* changes nothing of the Listener.
C12_StartOpensStopCloses ==
    /\ []((lastCall.op = "start" /\ lastCall.ok
              /\ lastCall.port \in 1 .. MAX_PORT) =>
             (/\ active(variant, sock[0])
              /\ sock[0] \in lfds[0]
              /\ lastCall.r = sock[0]))
    /\ [](lastCall.op = "stop" =>
             (~active(variant, sock[0]) /\ lfds[0] = {}))
    /\ [][(lastCall'.op = "stop" /\ ~active(variant, sock[0])) =>
             UNCHANGED << sock, port, lfds, linfo, lcloses >>]_vars

\* C12 witness: a start on port 65535 opened descriptor 0, a stop closed it,
\* and a second stop has been made on the closed Listener.
C12_Witness ==
    /\ lastCall.op = "stop"
    /\ lastCall.prev = NOSOCK
    /\ Len(linfo) = 1
    /\ linfo[1].bound = MAX_PORT
    /\ lcloses[0][0] = 1
    /\ lfds[0] = {}

\* C13: clients() entered with a Listener that is not open returns
\* ProgrammerError at once: no accept() and no fork() has been called, no
\* connection, process or session state has changed.  (Only the C++ main
\* calls clients() after a failed setup; the C main returns before.)
C13_NotOpenIsProgrammerError ==
    LET untouched ==
            /\ pc[0] = "exited"
            /\ \A p \in Procs \ {0} : pc[p] = "unborn"
            /\ clisock[0] = -1
            /\ open[0] = {}
            /\ \A c \in Conns : closes[0][c] = 0
            /\ sessRet[0] = -1
            /\ nprocs = 1
            /\ nconn = 0
            /\ backlog = << >>
            /\ osFail = {}
            /\ ~ioFail
    IN  /\ (lastCall.op = "start" /\ lastCall.r < 0
              /\ ~setupFailed(variant, lastCall.r)) =>
                (ret[0] = EXIT_PROG /\ untouched)
        /\ \A p \in Procs : ret[p] = EXIT_PROG => (p = 0 /\ untouched)

\* C13 witness: bind() or listen() failed in the C++ variant, clients() was
\* called with the closed Listener and has returned ProgrammerError.
C13_Witness ==
    /\ variant = "cpp"
    /\ lastCall.created
    /\ lastCall.r < 0
    /\ pc[0] = "exited"
    /\ ret[0] = EXIT_PROG

\* C15: a process that has returned from main holds no listening descriptor
\* open and stores none, and has closed no descriptor twice.
C15_ExitedHoldsNoListener ==
    \A p \in Procs :
        pc[p] = "exited" =>
            /\ lfds[p] = {}
            /\ ~active(variant, sock[p])
            /\ \A fd \in Fds : lcloses[p][fd] <= 1

\* C15 witness: clients() returned Error in two processes, and each of them
\* closed its copy of the listening descriptor before main returned.
C15_Witness ==
    \E p, q \in Procs :
        /\ p # q
        /\ pc[p] = "exited" /\ ret[p] = EXIT_ERR /\ lcloses[p][0] = 1
        /\ pc[q] = "exited" /\ ret[q] = EXIT_ERR /\ lcloses[q][0] = 1

\* C16: a process in which accept() or fork() has failed has returned Error
\* from clients() and has exited, with the accepted handle of a failed fork
\* closed once; a process whose session returned a non-Ok outcome has
\* returned exactly that outcome and has exited.  An exited process takes no
\* further step, so it never calls accept() again.
C16_NoRetryAfterFailure ==
    \A p \in Procs :
        /\ p \in osFail =>
              /\ pc[p] = "exited"
              /\ ret[p] = EXIT_ERR
              /\ open[p] = {}
              /\ clisock[p] \in Conns => closes[p][clisock[p]] = 1
        /\ (sessRet[p] >= 0 /\ sessRet[p] # EXIT_OK) =>
              /\ pc[p] = "exited"
              /\ ret[p] = sessRet[p]
        /\ pc[p] = "exited" => ~ENABLED (AcceptOk(p) \/ AcceptFail(p))

\* C16 witness: fork() failed in a process after an accept(); the process
\* closed the accepted handle and has returned Error, with a client waiting.
C16_Witness ==
    \E p \in Procs :
        /\ p \in osFail
        /\ clisock[p] \in Conns
        /\ closes[p][clisock[p]] = 1
        /\ pc[p] = "exited"
        /\ backlog # << >>

\* C14 (as claimed): a -p argument is refused (its value is not in 1..65535)
\* with exit status UserError and no socket created, or it is let through and
\* the Listener is started on exactly the value that was range-checked.
C14_ValidatedPortIsUsed ==
    (optarg # NoArg /\ pc[0] # "getopt") =>
        LET lport == strtol(optarg)
        IN  IF lport \in 1 .. MAX_PORT
            THEN lastCall.op = "start" => lastCall.port = lport
            ELSE /\ pc[0] = "exited"
                 /\ exitcode[0] = EXIT_USER
                 /\ lastCall.op = "none"
                 /\ linfo = << >>

\* C20 (as claimed): after every read that returned data, the index of the
\* store message[reads] = '\0' is an index of message: reads <= 1023.
C20_StoreInsideBuffer ==
    lastRead > 0 => InMessage(storeIndex(lastRead))

\* C17 (as claimed): the first failure of a system call in a session (fcntl,
\* select or read) ends that session at once: the handle is closed by one
\* close(), session() returns Error, and the process goes on to nothing else
\* in the session (no write after a select error, no further turn of the loop
\* after a read error).
C17_EveryFailureIsError ==
    [][\A p \in Procs :
          (InSession(p) /\ ~ioFail /\ ioFail' /\ pc'[p] # pc[p]) =>
              /\ pc'[p] = "exited"
              /\ sessRet'[p] = EXIT_ERR
              /\ clisock[p] \notin open'[p]
              /\ closes'[p][clisock[p]] = closes[p][clisock[p]] + 1]_vars

\* The processes that run or have run the session on connection c.
Served(c) ==
    {p \in Procs : /\ clisock[p] = c
                   /\ InSession(p) \/ sessRet[p] >= 0 \/ pc[p] = "aborted"}

\* The processes that hold or have held a handle of connection c.
Holders(c) ==
    {p \in Procs : \/ c \in open[p]
                   \/ closes[p][c] > 0
                   \/ pc[p] = "aborted" /\ clisock[p] = c}

\* C18: a read that returns 0 on the watched connection leaves the session
\* running: session() has not returned, the handle is open and no close() has
\* been made on it, and the step of the read leads to the select() of the
\* next turn.
C18_ZeroReadGoesOn ==
    /\ [](lastRead = 0 =>
            \E p \in Procs :
                /\ clisock[p] = watch
                /\ pc[p] \in {"select", "write", "read"}
                /\ watch \in open[p]
                /\ closes[p][watch] = 0
                /\ sessRet[p] = -1)
    /\ [][\A p \in Procs :
            (pc[p] = "read" /\ clisock[p] = watch /\ pc'[p] # "read"
               /\ lastRead' = 0) =>
                (pc'[p] = "select" /\ UNCHANGED << open, closes, sessRet >>)]_vars

\* C18 witness: the client of the watched connection has closed its end, the
\* read of the session returned 0, and the session is at select() again with
\* its handle open.
C18_Witness ==
    /\ lastRead = 0
    /\ ~ioFail
    /\ \E p \in Procs :
          pc[p] = "select" /\ clisock[p] = watch /\ watch \in open[p]

\* C19: at most two processes ever hold a handle of a connection; once fork()
\* has given the second one, exactly one of the two runs (or has run) the
\* session on it, and the other one is about to close its copy or has closed
\* it with one close() and has never been in a session on it.
C19_OneOwnerPerConnection ==
    \A c \in Conns :
        /\ Cardinality(Holders(c)) <= 2
        /\ Cardinality(Served(c)) <= 1
        /\ Cardinality(Holders(c)) = 2 =>
              /\ Cardinality(Served(c)) = 1
              /\ Served(c) \subseteq Holders(c)
              /\ \A q \in Holders(c) \ Served(c) :
                    \/ pc[q] = "child" /\ clisock[q] = c /\ c \in open[q]
                    \/ closes[q][c] = 1 /\ c \notin open[q]

\* C19 witness: the fork parent is reading on connection 1 while the fork
\* child has closed its copy and is serving connection 2 itself.
C19_Witness ==
    \E p, q \in Procs :
        /\ p # q
        /\ pc[p] = "read" /\ clisock[p] = 1 /\ 1 \in open[p]
        /\ closes[q][1] = 1
        /\ InSession(q) /\ clisock[q] = 2

====
